---- MODULE Spec2Model ----
(***************************************************************************)
(* The three demo programs of brickgl, each a linear main() followed by a  *)
(* render loop:                                                            *)
(*   "Flat"   src/main.go              rotating flat-shaded cuboid faces   *)
(*   "Brick"  src/unnamed/part_000:1   rotating lit cuboid (window Brick)  *)
(*   "Static" src/unnamed/part_000:332 two static triangles                *)
(* One behaviour of the model is one run of one of the programs.  The      *)
(* windowing system, the GL driver and the user are the environment: they  *)
(* decide whether the initialisation calls succeed, the compile and link   *)
(* status, and the input events that have arrived when PollEvents runs.    *)
(*                                                                         *)
(* Numbers: float32 coordinates are written in eighths (0.125 = 1,         *)
(* 0.25 = 2, 0.5 = 4, 1.0 = 8), light and colour components in tenths.     *)
(***************************************************************************)
EXTENDS Integers, Sequences, FiniteSets, TLC

VARIABLES
    prog,            \* which program's main() is running
    pc,              \* position of main()
    exit,            \* "running", "returned", "panic" or "fatal"
    steps,           \* the statements of main() executed so far, in order
    deferred,        \* main()'s stack of deferred calls
    terminated,      \* number of glfw.Terminate calls
    window,          \* the glfw window: created, context, callbacks, shouldClose
    sent,            \* number of input events dispatched so far
    globals,         \* package-level width, height; the GL viewport; the log output
    heap,            \* backing arrays of the Go slices
    points,          \* the named point and normal slices
    trongles,        \* frontFaceVertices / trongles / vertices, otherVertices
    vertices,        \* the lit cube's flattened vertex slice
    glObjects,       \* live GL objects
    glDeleted,       \* GL objects deleted so far, in order
    glNext,          \* next GL object name
    buffers,         \* per vertex-array object: its buffer, data and stride
    glState,         \* current program and bound vertex array
    shaders,         \* result of compileShaders
    shaderProgram,   \* result of linkShaders
    VAO,             \* the vertex-array objects of main()
    VBO,             \* the lit cube's vertex buffer
    transformation,  \* the rotation transform
    rotationQuat,    \* the quaternion composed every frame
    frames,          \* loop iterations started
    frame            \* the calls made in the current loop iteration

vars == <<prog, pc, exit, steps, deferred, terminated, window, sent,
          globals, heap, points, trongles, vertices, glObjects, glDeleted,
          glNext, buffers, glState, shaders, shaderProgram, VAO, VBO,
          transformation, rotationQuat, frames, frame>>

----------------------------------------------------------------------------
\* Bounds of the model.

\* Loop iterations a run may start without a close request.
MaxFrames == 3

\* Input events the windowing system delivers in one run.
MaxEvents == 2

----------------------------------------------------------------------------
\* Program constants.

Programs == {"Flat", "Brick", "Static"}

\* width, height int = 800, 800
InitialSize == 800

\* Bytes of a float32 (the 4 of len(vertices)*4 and of the strides).
FloatBytes == 4

\* Floats per vertex: gl.VertexAttribPointerWithOffset(..., 3*4, 0) and (..., 6*4, ...)
PositionStride == 3
NormalStride == 6

\* The status value checkGlError accepts.
GlTrue == 1

\* gl.DrawArrays(gl.TRIANGLES, 0, 3)
TriangleCount == 3

Seq2Set(s) == {s[i] : i \in 1..Len(s)}

RECURSIVE Flatten(_)
Flatten(ss) == IF ss = <<>> THEN <<>> ELSE Head(ss) \o Flatten(Tail(ss))

----------------------------------------------------------------------------
\* Go slices.  A slice is a backing array (an index into heap, 0 for nil)
\* and a length; its capacity is the length of the backing array.  No
\* program reslices, so every slice starts at offset 0 of its array.

NilSlice == [arr |-> 0, len |-> 0]

Cap(h, s) == IF s.arr = 0 THEN 0 ELSE Len(h[s.arr])

\* The elements of slice s.
Elems(h, s) == IF s.arr = 0 THEN <<>> ELSE SubSeq(h[s.arr], 1, s.len)

\* Allocation size classes of the Go runtime, in bytes, up to the largest
\* array any of the programs allocates.
SizeClasses ==
    {8, 16, 24, 32, 48, 64, 80, 96, 112, 128, 144, 160, 176, 192, 208, 224,
     240, 256, 288, 320, 352, 384, 416, 448, 480, 512, 576, 640, 704, 768,
     896, 1024, 1152, 1280}

RoundUpSize(bytes) ==
    LET fit == {c \in SizeClasses : c >= bytes}
    IN  CHOOSE c \in fit : \A d \in fit : c <= d

\* Capacity of the array append allocates when oldCap does not hold newLen
\* elements (runtime growslice for float32, below the 256-element threshold).
GrowCap(oldCap, newLen) ==
    LET want == IF newLen > 2 * oldCap THEN newLen ELSE 2 * oldCap
    IN  RoundUpSize(want * FloatBytes) \div FloatBytes

\* Variant of SliceLiteral: the array has room for two more points, as
\* make([]float32, 3, 9) would give.
SliceLiteralSpareCap(h, elems) ==
    [heap  |-> Append(h, elems \o [i \in 1..(2 * Len(elems)) |-> 0]),
     slice |-> [arr |-> Len(h) + 1, len |-> Len(elems)]]

\* A slice literal []float32{...}: a fresh array exactly as long as the literal.
SliceLiteral(h, elems) ==
    [heap  |-> Append(h, elems),
     slice |-> [arr |-> Len(h) + 1, len |-> Len(elems)]]

\* append(s, elems...): in place when the capacity allows, otherwise into a
\* fresh, larger array; s itself is never changed.
GoAppend(h, s, elems) ==
    LET newLen == s.len + Len(elems)
    IN  IF Len(elems) = 0
        THEN [heap |-> h, slice |-> s]
        ELSE IF newLen <= Cap(h, s)
        THEN [heap  |-> [h EXCEPT ![s.arr] =
                            [i \in 1..Len(h[s.arr]) |->
                                IF i > s.len /\ i <= newLen
                                THEN elems[i - s.len] ELSE h[s.arr][i]]],
              slice |-> [arr |-> s.arr, len |-> newLen]]
        ELSE LET newCap == GrowCap(Cap(h, s), newLen)
                 data   == Elems(h, s) \o elems
             IN  [heap  |-> Append(h, [i \in 1..newCap |->
                                IF i <= newLen THEN data[i] ELSE 0]),
                  slice |-> [arr |-> Len(h) + 1, len |-> newLen]]

----------------------------------------------------------------------------
\* Geometry literals.

\* main.go: L1 .. R4 of main().
FlatPoints ==
    << <<"L1", <<-4,  2, -4>> >>, <<"L2", <<-4, -2, -4>> >>,
       <<"L3", <<-4,  2,  4>> >>, <<"L4", <<-4, -2,  4>> >>,
       <<"R1", << 4,  2, -4>> >>, <<"R2", << 4, -2, -4>> >>,
       <<"R3", << 4,  2,  4>> >>, <<"R4", << 4, -2,  4>> >> >>

\* main.go: the arguments of the four constructTrongle calls.
FlatTrongles ==
    << <<"L1", "L2", "R2">>, <<"L1", "R1", "R2">>,
       <<"L3", "L4", "R4">>, <<"L3", "R3", "R4">> >>

\* Lit cube: the package-level points and normals, in declaration order.
BrickPoints ==
    << <<"L1", <<-2,  1, -4>> >>, <<"L2", <<-2, -1, -4>> >>,
       <<"R1", << 2,  1, -4>> >>, <<"R2", << 2, -1, -4>> >>,
       <<"L3", <<-2,  1,  4>> >>, <<"L4", <<-2, -1,  4>> >>,
       <<"R3", << 2,  1,  4>> >>, <<"R4", << 2, -1,  4>> >>,
       <<"posXNorm", << 8, 0, 0>> >>, <<"negXNorm", <<-8, 0, 0>> >>,
       <<"posYNorm", << 0, 8, 0>> >>, <<"negYNorm", << 0, -8, 0>> >>,
       <<"posZNorm", << 0, 0, 8>> >>, <<"negZNorm", << 0, 0, -8>> >> >>

\* Lit cube: the arguments of the twelve constructTrongle calls.
BrickTrongles ==
    << [points |-> <<"L1", "L2", "R2">>, normal |-> "posZNorm"],
       [points |-> <<"R2", "R1", "L1">>, normal |-> "posZNorm"],
       [points |-> <<"L3", "L4", "R4">>, normal |-> "negZNorm"],
       [points |-> <<"L3", "R3", "R4">>, normal |-> "negZNorm"],
       [points |-> <<"R1", "R2", "R4">>, normal |-> "negXNorm"],
       [points |-> <<"R1", "R3", "R4">>, normal |-> "negXNorm"],
       [points |-> <<"L1", "L2", "L4">>, normal |-> "negXNorm"],
       [points |-> <<"L1", "L3", "L4">>, normal |-> "negXNorm"],
       [points |-> <<"L1", "R1", "R3">>, normal |-> "negYNorm"],
       [points |-> <<"L1", "L3", "R3">>, normal |-> "negYNorm"],
       [points |-> <<"L2", "R2", "R4">>, normal |-> "posYNorm"],
       [points |-> <<"L2", "L4", "R4">>, normal |-> "posYNorm"] >>

\* Static triangles: vertices and otherVertices of main().
StaticVertices ==
    << << 0, 0, 0,  -8, 0, 0,  -8, 8, 0 >>,
       << 0, 0, 0,   0, 8, 0,  -8, 8, 0 >> >>

\* Evaluate a list of named slice literals in order.
RECURSIVE AllocLiterals(_, _, _)
AllocLiterals(h, pts, defs) ==
    IF defs = <<>>
    THEN [heap |-> h, points |-> pts]
    ELSE LET r == SliceLiteral(h, Head(defs)[2])
             n == Head(defs)[1]
         IN  AllocLiterals(r.heap,
                 [x \in DOMAIN pts \cup {n} |-> IF x = n THEN r.slice ELSE pts[x]],
                 Tail(defs))

NoPoints == [x \in {} |-> NilSlice]

\* main.go: append(pointOne, append(pointTwo, pointThree...)...)
constructTrongle(h, pointOne, pointTwo, pointThree) ==
    LET inner == GoAppend(h, pointTwo, Elems(h, pointThree))
    IN  GoAppend(inner.heap, pointOne, Elems(inner.heap, inner.slice))

\* Lit cube: for each point, append the point, then the normal.
RECURSIVE constructTrongleNormal(_, _, _, _)
constructTrongleNormal(h, trongle, pts, normal) ==
    IF pts = <<>>
    THEN [heap |-> h, slice |-> trongle]
    ELSE LET a == GoAppend(h, trongle, Elems(h, Head(pts)))
             b == GoAppend(a.heap, a.slice, Elems(a.heap, normal))
         IN  constructTrongleNormal(b.heap, b.slice, Tail(pts), normal)

\* Lit cube: vertices = append(vertices, trongle...) for each trongle.
RECURSIVE FlattenTrongles(_, _, _)
FlattenTrongles(h, verts, ts) ==
    IF ts = <<>>
    THEN [heap |-> h, slice |-> verts]
    ELSE LET a == GoAppend(h, verts, Elems(h, Head(ts)))
         IN  FlattenTrongles(a.heap, a.slice, Tail(ts))

----------------------------------------------------------------------------
\* Input events and the callbacks PollEvents dispatches them to.

Keys == {"Escape", "Q", "A"}

KeyActions == {"Press", "Release", "Repeat"}

KeyEvent(k, a) == [type |-> "key", key |-> k, action |-> a, w |-> 0, h |-> 0]

CharEvent == [type |-> "char", key |-> "a", action |-> "", w |-> 0, h |-> 0]

SizeEvent(w, h) == [type |-> "size", key |-> "", action |-> "", w |-> w, h |-> h]

\* The windowing system's own close request (the window's close button).
CloseEvent == [type |-> "close", key |-> "", action |-> "", w |-> 0, h |-> 0]

Events ==
    {KeyEvent(k, a) : k \in Keys, a \in KeyActions}
        \cup {CharEvent, SizeEvent(640, 480), CloseEvent}

\* What a callback can reach: the window's close flag and the package state.
\*   c.shouldClose, c.width, c.height, c.viewport, c.log

\* Variant of onKey: the action is not looked at.
onKeyAnyAction(c, key, action) ==
    IF key = "Escape" \/ key = "Q"
    THEN [c EXCEPT !.shouldClose = TRUE]
    ELSE c

\* Keyboard key callback: Escape or Q pressed requests the close.
onKey(c, key, action) ==
    IF (key = "Escape" /\ action = "Press") \/ (key = "Q" /\ action = "Press")
    THEN [c EXCEPT !.shouldClose = TRUE]
    ELSE c

\* log.Println(char)
onChar(c, char) == [c EXCEPT !.log = Append(@, <<"char", char>>)]

\* The resize callback: sets the viewport and width, height = w, h.
reshape(c, w, h) ==
    [c EXCEPT !.viewport = <<w, h>>, !.width = w, !.height = h]

\* One event, delivered to the callback registered for it; the close request
\* sets the flag inside the windowing library.
Dispatch(c, callbacks, e) ==
    CASE e.type = "key"   -> IF "key" \in callbacks
                             THEN onKey(c, e.key, e.action) ELSE c
      [] e.type = "char"  -> IF "char" \in callbacks
                             THEN onChar(c, e.key) ELSE c
      [] e.type = "size"  -> IF "size" \in callbacks
                             THEN reshape(c, e.w, e.h) ELSE c
      [] e.type = "close" -> [c EXCEPT !.shouldClose = TRUE]

\* glfw.PollEvents(): every queued event, in order.
RECURSIVE DispatchAll(_, _, _)
DispatchAll(c, callbacks, es) ==
    IF es = <<>> THEN c
    ELSE DispatchAll(Dispatch(c, callbacks, Head(es)), callbacks, Tail(es))

\* The callback-visible state, gathered from and written back to the variables.
CallbackState ==
    [shouldClose |-> window.shouldClose, width |-> globals.width,
     height |-> globals.height, viewport |-> globals.viewport,
     log |-> globals.log]

----------------------------------------------------------------------------
\* Error checks.

\* Variant of checkGlError: the failure is printed and the process goes on,
\* as log.Println in place of log.Fatalln would do.
checkGlErrorLogOnly(success, failMsg) ==
    [fatal |-> FALSE,
     log   |-> IF success # GlTrue THEN <<failMsg>> ELSE <<>>]

\* checkGlError: fatal (log.Fatalln, which exits the process) unless the
\* status read back is 1.
checkGlError(success, failMsg) ==
    IF success # GlTrue
    THEN [fatal |-> TRUE,  log |-> <<failMsg>>]
    ELSE [fatal |-> FALSE, log |-> <<>>]

\* Variant of PanicOnErr: the error is dropped.
IgnoreErr(err) == FALSE

\* if err != nil { panic(err) }
PanicOnErr(err) == err

\* Status values the driver reports: GL_FALSE, GL_TRUE.
StatusValues == {0, 1}

----------------------------------------------------------------------------
\* The order of main().

\* The statements before the loop, per program.
SetupOrder(p) ==
    CASE p = "Flat"   -> <<"glfwInit", "createWindow", "setupWindow", "glInit",
                           "reshape", "points", "trongles", "compileVertex",
                           "compileFragment", "link", "createVAO", "animation">>
      [] p = "Brick"  -> <<"glfwInit", "createWindow", "setupWindow", "glInit",
                           "reshape", "trongles", "flatten", "compileVertex",
                           "compileFragment", "link", "createVAO", "animation">>
      [] p = "Static" -> <<"glfwInit", "createWindow", "setupWindow", "glInit",
                           "reshape", "points", "compileVertex",
                           "compileFragment", "link", "createVAO">>

\* Variant of BodyOrder: every program polls after it has presented.
BodyOrderPollLast(p) ==
    CASE p = "Flat"   -> <<"rotate", "pushTransform", "clear", "draw", "swap",
                           "poll">>
      [] p = "Brick"  -> <<"rotate", "pushTransform", "pushLights", "clear",
                           "draw", "swap", "poll", "sleep">>
      [] p = "Static" -> <<"clear", "draw", "swap", "poll">>

\* The statements of one loop iteration, per program.
BodyOrder(p) ==
    CASE p = "Flat"   -> <<"poll", "rotate", "pushTransform", "clear", "draw",
                           "swap">>
      [] p = "Brick"  -> <<"rotate", "pushTransform", "pushLights", "clear",
                           "draw", "swap", "poll", "sleep">>
      [] p = "Static" -> <<"poll", "clear", "draw", "swap">>

\* The statements after the loop, per program.
TeardownOrder(p) ==
    IF p = "Brick" THEN <<"cleanup", "return">> ELSE <<"return">>

IndexOf(seq, x) == CHOOSE i \in 1..Len(seq) : seq[i] = x

\* The statement after label l in sequence seq, or otherwise when l is last.
After(seq, l, otherwise) ==
    IF IndexOf(seq, l) < Len(seq) THEN seq[IndexOf(seq, l) + 1] ELSE otherwise

AfterSetup(l) == After(SetupOrder(prog), l, "loopCond")

AfterBody(l) == After(BodyOrder(prog), l, "loopCond")

AfterTeardown(l) == After(TeardownOrder(prog), l, "exited")

InBody == pc \in Seq2Set(BodyOrder(prog))

----------------------------------------------------------------------------
\* The rotation transform.  glm composes rotations by multiplication; the
\* model keeps the transform as the list of the quaternions composed into
\* it, oldest first, so that two transforms are equal exactly when the same
\* rotations were composed in the same order.

\* transformation.Iden()
Iden == <<>>

\* Variant of RotateQuat: the rotation is composed twice.
RotateQuatTwice(t, q) == Append(Append(t, q), q)

\* transformation.RotateQuat(q)
RotateQuat(t, q) == Append(t, q)

\* q.Normalize()
Normalize(q) == [q EXCEPT !.normalized = TRUE]

Quat(w, v) == [W |-> w, V |-> v, normalized |-> FALSE]

\* main.go: axis {0, 1, 0}, angle math.Pi / 180
FlatFrameQuat == Normalize(Quat("Pi/180", <<0, 1, 0>>))

\* Lit cube: the rotation applied once before the loop, about X by math.Pi / 8.0
BrickTiltQuat == Normalize(Quat("Pi/8", <<1, 0, 0>>))

\* Lit cube: the rotation of every frame, about Y by math.Pi / 360.0
BrickFrameQuat == Normalize(Quat("Pi/360", <<0, 1, 0>>))

\* Lit cube: lightPos, lightColor, objectColor (tenths).
LightUniforms ==
    << <<"lightPos",    <<12, 10, -20>> >>,
       <<"lightColor",  <<10, 10, 10>> >>,
       <<"objectColor", <<10, 0, 0>> >> >>

----------------------------------------------------------------------------
\* GL state.

NoUniforms ==
    [transform |-> <<>>, lightPos |-> <<>>, lightColor |-> <<>>,
     objectColor |-> <<>>]

\* One call of a loop iteration, with the program in use when it was made.
Call(op, name, value, vao, count) ==
    [op |-> op, name |-> name, value |-> value, vao |-> vao, count |-> count,
     inUse |-> glState.program]

\* gl.Uniform*: sets the uniform of the program in use; without a program in
\* use the call raises GL_INVALID_OPERATION and sets nothing.
SetUniform(g, name, value) ==
    IF g.program = 0
    THEN [g EXCEPT !.errors = @ + 1]
    ELSE [g EXCEPT !.uniforms = [@ EXCEPT ![name] = value]]

\* The face arguments gl.PolygonMode accepts.
PolygonFaces == {"FRONT", "BACK", "FRONT_AND_BACK"}

\* gl.PolygonMode: sets the rasterisation mode; a face argument that is not a
\* face raises GL_INVALID_ENUM and sets nothing.
PolygonMode(g, face, mode) ==
    IF face \in PolygonFaces
    THEN [g EXCEPT !.polygonMode = mode]
    ELSE [g EXCEPT !.errors = @ + 1]

\* gl.DeleteVertexArrays / gl.DeleteBuffers: a deleted object that is bound
\* in the current context has its binding reset to 0.
RECURSIVE DeleteBindings(_, _)
DeleteBindings(g, objs) ==
    IF objs = <<>> THEN g
    ELSE LET o == Head(objs)
             h == IF o.kind = "vao" /\ g.vao = o.id
                  THEN [g EXCEPT !.vao = 0]
                  ELSE IF o.kind = "buffer" /\ g.arrayBuffer = o.id
                  THEN [g EXCEPT !.arrayBuffer = 0]
                  ELSE g
         IN  DeleteBindings(h, Tail(objs))

RECURSIVE SetUniforms(_, _)
SetUniforms(g, us) ==
    IF us = <<>> THEN g
    ELSE SetUniforms(SetUniform(g, Head(us)[1], Head(us)[2]), Tail(us))

\* Variant of BrickDrawCount: the position-only stride is used.
BrickDrawCountPositionsOnly(n) == n \div PositionStride

\* Vertices a draw call on the lit cube's buffer requests: len(vertices)/6.
BrickDrawCount(n) == n \div NormalStride

\* Floats per vertex of a program's buffers.
Stride(p) == IF p = "Brick" THEN NormalStride ELSE PositionStride

\* The draw calls of one frame: UseProgram, then per vertex array a bind and
\* a draw, then the unbind.
DrawCalls(p, vaos, nverts) ==
    <<[op |-> "UseProgram", vao |-> 0, count |-> 0]>>
        \o Flatten([i \in 1..Len(vaos) |->
                <<[op |-> "BindVertexArray", vao |-> vaos[i], count |-> 0],
                  [op |-> "DrawArrays", vao |-> vaos[i],
                   count |-> IF p = "Brick" THEN BrickDrawCount(nverts)
                             ELSE TriangleCount]>>])
        \o <<[op |-> "BindVertexArray", vao |-> 0, count |-> 0]>>

\* Variant of CleanupObjects: nothing is deleted.
CleanupNothing(p, vaos, vbo) == <<>>

\* The objects the program deletes after its loop.
CleanupObjects(p, vaos, vbo) ==
    IF p = "Brick"
    THEN <<[kind |-> "vao", id |-> vaos[1]], [kind |-> "buffer", id |-> vbo]>>
    ELSE <<>>

----------------------------------------------------------------------------
\* Initial state: the process has started and main() is about to run.

NoWindow ==
    [created |-> FALSE, current |-> FALSE, callbacks |-> {},
     shouldClose |-> FALSE, swapInterval |-> 0]

Init ==
    /\ prog \in Programs
    /\ pc = "glfwInit"
    /\ exit = "running"
    /\ steps = <<>>
    /\ deferred = <<>>
    /\ terminated = 0
    /\ window = NoWindow
    /\ sent = 0
    /\ globals = [width |-> InitialSize, height |-> InitialSize,
                  viewport |-> <<0, 0>>, log |-> <<>>]
    /\ LET g == IF prog = "Brick"
                THEN AllocLiterals(<<>>, NoPoints, BrickPoints)
                ELSE [heap |-> <<>>, points |-> NoPoints]
       IN  heap = g.heap /\ points = g.points
    /\ trongles = <<>>
    /\ vertices = NilSlice
    /\ glObjects = {}
    /\ glDeleted = <<>>
    /\ glNext = 1
    /\ buffers = [v \in {} |-> 0]
    /\ glState = [program |-> 0, vao |-> 0, arrayBuffer |-> 0, errors |-> 0,
                  polygonMode |-> "FILL", uniforms |-> NoUniforms]
    /\ shaders = <<>>
    /\ shaderProgram = 0
    /\ VAO = <<>>
    /\ VBO = 0
    /\ transformation = Iden
    /\ rotationQuat = Quat("", <<0, 0, 0>>)
    /\ frames = 0
    /\ frame = <<>>

ctl  == <<pc, exit, deferred, terminated>>
geo  == <<heap, points, trongles, vertices>>
glv  == <<glObjects, glDeleted, glNext, buffers, glState, shaders,
          shaderProgram, VAO, VBO>>
anim == <<transformation, rotationQuat>>
loopv == <<frames, frame>>

Running(l) == pc = l /\ exit = "running"

\* The record of an executed statement: for the library initialisations
\* whether the call returned an error, for the shader checks the status
\* checkGlError read, as a one-element set (empty elsewhere).
Step(l) == steps' = Append(steps, [stmt |-> l, err |-> FALSE, status |-> {}])

StepErr(l, err) ==
    steps' = Append(steps, [stmt |-> l, err |-> err, status |-> {}])

StepStatus(l, status) ==
    steps' = Append(steps, [stmt |-> l, err |-> FALSE, status |-> {status}])

\* A panic unwinds main(): the deferred calls run, then the process exits.
Panic ==
    /\ exit' = "panic"
    /\ pc' = "exited"
    /\ terminated' = terminated + Len(deferred)
    /\ deferred' = <<>>

\* log.Fatalln prints and calls os.Exit(1): deferred calls do not run.
Fatal ==
    /\ exit' = "fatal"
    /\ pc' = "exited"
    /\ UNCHANGED <<terminated, deferred>>

Goto(l) == pc' = l /\ UNCHANGED <<exit, terminated, deferred>>

----------------------------------------------------------------------------
\* main(): window and context.

\* err := glfw.Init(); if err != nil { panic(err) }; defer glfw.Terminate()
GlfwInit(err) ==
    /\ Running("glfwInit")
    /\ StepErr("glfwInit", err)
    /\ IF PanicOnErr(err)
       THEN Panic
       ELSE /\ pc' = AfterSetup("glfwInit")
            /\ deferred' = <<"glfw.Terminate">> \o deferred
            /\ UNCHANGED <<exit, terminated>>
    /\ UNCHANGED <<prog, window, sent, globals, geo, glv, anim, loopv>>

\* window, err := glfw.CreateWindow(...); if err != nil { panic(err) }
CreateWindow(err) ==
    /\ Running("createWindow")
    /\ StepErr("createWindow", err)
    /\ IF PanicOnErr(err)
       THEN Panic /\ UNCHANGED window
       ELSE /\ Goto(AfterSetup("createWindow"))
            /\ window' = [window EXCEPT !.created = TRUE]
    /\ UNCHANGED <<prog, sent, globals, geo, glv, anim, loopv>>

\* MakeContextCurrent, SetSizeCallback, SetKeyCallback, SetCharCallback,
\* glfw.SwapInterval
SetupWindow ==
    /\ Running("setupWindow")
    /\ Step("setupWindow")
    /\ Goto(AfterSetup("setupWindow"))
    /\ window' = [window EXCEPT !.current = TRUE,
                                !.callbacks = {"size", "key", "char"},
                                !.swapInterval = IF prog = "Brick" THEN -1 ELSE 1]
    /\ UNCHANGED <<prog, sent, globals, geo, glv, anim, loopv>>

\* err = gl.Init(); if err != nil { panic(err) }
GlInit(err) ==
    /\ Running("glInit")
    /\ StepErr("glInit", err)
    /\ IF PanicOnErr(err) THEN Panic ELSE Goto(AfterSetup("glInit"))
    /\ UNCHANGED <<prog, window, sent, globals, geo, glv, anim, loopv>>

\* reshape(window, width, height)
Reshape ==
    /\ Running("reshape")
    /\ Step("reshape")
    /\ Goto(AfterSetup("reshape"))
    /\ LET c == reshape(CallbackState, globals.width, globals.height)
       IN  globals' = [width |-> c.width, height |-> c.height,
                       viewport |-> c.viewport, log |-> c.log]
    /\ UNCHANGED <<prog, window, sent, geo, glv, anim, loopv>>

----------------------------------------------------------------------------
\* main(): geometry.

\* The slice literals of main(): L1 .. R4 (flat cube), or vertices and
\* otherVertices (static triangles).
DefinePoints ==
    /\ Running("points")
    /\ Step("points")
    /\ Goto(AfterSetup("points"))
    /\ IF prog = "Flat"
       THEN LET g == AllocLiterals(heap, points, FlatPoints)
            IN  heap' = g.heap /\ points' = g.points /\ UNCHANGED trongles
       ELSE LET a == SliceLiteral(heap, StaticVertices[1])
                b == SliceLiteral(a.heap, StaticVertices[2])
            IN  /\ heap' = b.heap
                /\ trongles' = <<a.slice, b.slice>>
                /\ UNCHANGED points
    /\ UNCHANGED <<prog, window, sent, globals, vertices, glv, anim, loopv>>

\* The next constructTrongle call of the slice-of-slices literal.
BuildTrongle ==
    /\ Running("trongles")
    /\ LET k == Len(trongles) + 1
           n == IF prog = "Flat" THEN Len(FlatTrongles) ELSE Len(BrickTrongles)
           r == IF prog = "Flat"
                THEN constructTrongle(heap, points[FlatTrongles[k][1]],
                         points[FlatTrongles[k][2]], points[FlatTrongles[k][3]])
                ELSE constructTrongleNormal(heap, NilSlice,
                         [i \in 1..Len(BrickTrongles[k].points) |->
                             points[BrickTrongles[k].points[i]]],
                         points[BrickTrongles[k].normal])
       IN  /\ heap' = r.heap
           /\ trongles' = Append(trongles, r.slice)
           /\ IF k = n
              THEN Step("trongles") /\ Goto(AfterSetup("trongles"))
              ELSE Goto("trongles") /\ UNCHANGED steps
    /\ UNCHANGED <<prog, window, sent, globals, points, vertices, glv, anim,
                   loopv>>

\* Lit cube: vertices := []float32{}; for each trongle, append it.
FlattenVertices ==
    /\ Running("flatten")
    /\ Step("flatten")
    /\ Goto(AfterSetup("flatten"))
    /\ LET e == SliceLiteral(heap, <<>>)
           r == FlattenTrongles(e.heap, e.slice, trongles)
       IN  heap' = r.heap /\ vertices' = r.slice
    /\ UNCHANGED <<prog, window, sent, globals, points, trongles, glv, anim,
                   loopv>>

----------------------------------------------------------------------------
\* main(): shaders.

\* compileShaders, first half: create, compile and check the vertex shader.
CompileVertex(status) ==
    /\ Running("compileVertex")
    /\ StepStatus("compileVertex", status)
    /\ glObjects' = glObjects \cup {[kind |-> "shader", id |-> glNext]}
    /\ glNext' = glNext + 1
    /\ LET chk == checkGlError(status, "ERROR::SHADER::COMPILE_FAILURE")
       IN  /\ globals' = [globals EXCEPT !.log = @ \o chk.log]
           /\ IF chk.fatal
              THEN Fatal /\ UNCHANGED shaders
              ELSE Goto(AfterSetup("compileVertex"))
                      /\ shaders' = <<glNext>>
    /\ UNCHANGED <<prog, window, sent, geo, glDeleted, buffers, glState,
                   shaderProgram, VAO, VBO, anim, loopv>>

\* compileShaders, second half: the fragment shader, and the return.
CompileFragment(status) ==
    /\ Running("compileFragment")
    /\ StepStatus("compileFragment", status)
    /\ glObjects' = glObjects \cup {[kind |-> "shader", id |-> glNext]}
    /\ glNext' = glNext + 1
    /\ LET chk == checkGlError(status, "ERROR::SHADER::COMPILE_FAILURE")
       IN  /\ globals' = [globals EXCEPT !.log = @ \o chk.log]
           /\ IF chk.fatal
              THEN Fatal /\ UNCHANGED shaders
              ELSE Goto(AfterSetup("compileFragment"))
                      /\ shaders' = Append(shaders, glNext)
    /\ UNCHANGED <<prog, window, sent, geo, glDeleted, buffers, glState,
                   shaderProgram, VAO, VBO, anim, loopv>>

\* linkShaders: create the program, attach, link, check, delete the shaders.
LinkShaders(status) ==
    /\ Running("link")
    /\ StepStatus("link", status)
    /\ glNext' = glNext + 1
    /\ LET chk == checkGlError(status, "ERROR::PROGRAM::LINKING_FAILURE")
           withProgram == glObjects \cup {[kind |-> "program", id |-> glNext]}
           shaderObjs == [i \in 1..Len(shaders) |->
                             [kind |-> "shader", id |-> shaders[i]]]
       IN  /\ globals' = [globals EXCEPT !.log = @ \o chk.log]
           /\ IF chk.fatal
              THEN /\ Fatal
                   /\ glObjects' = withProgram
                   /\ UNCHANGED <<glDeleted, shaderProgram>>
              ELSE /\ Goto(AfterSetup("link"))
                   /\ glObjects' = withProgram \ Seq2Set(shaderObjs)
                   /\ glDeleted' = glDeleted \o shaderObjs
                   /\ shaderProgram' = glNext
    /\ UNCHANGED <<prog, window, sent, geo, buffers, glState, shaders, VAO,
                   VBO, anim, loopv>>

\* The slices uploaded, one vertex-array object each.
UploadSources ==
    IF prog = "Brick" THEN <<vertices>> ELSE trongles

\* createTriangleVAO / createVAO for the next slice: generate the vertex
\* array and the buffer, copy the slice into the buffer, describe the layout.
CreateVAO ==
    /\ Running("createVAO")
    /\ LET k    == Len(VAO) + 1
           vao  == glNext
           vbo  == glNext + 1
       IN  /\ glObjects' = glObjects \cup {[kind |-> "vao", id |-> vao],
                                          [kind |-> "buffer", id |-> vbo]}
           /\ glNext' = glNext + 2
           /\ buffers' = [v \in DOMAIN buffers \cup {vao} |->
                            IF v = vao
                            THEN [vbo    |-> vbo,
                                  data   |-> Elems(heap, UploadSources[k]),
                                  bytes  |-> UploadSources[k].len * FloatBytes,
                                  stride |-> Stride(prog)]
                            ELSE buffers[v]]
           /\ glState' = [glState EXCEPT !.vao = 0, !.arrayBuffer = vbo]
           /\ VAO' = Append(VAO, vao)
           /\ VBO' = IF prog = "Brick" THEN vbo ELSE VBO
           /\ IF k = Len(UploadSources)
              THEN Step("createVAO") /\ Goto(AfterSetup("createVAO"))
              ELSE Goto("createVAO") /\ UNCHANGED steps
    /\ UNCHANGED <<prog, window, sent, globals, geo, glDeleted, shaders,
                   shaderProgram, anim, loopv>>

\* The transform and the per-frame quaternion of the rotating programs.
SetupAnimation ==
    /\ Running("animation")
    /\ Step("animation")
    /\ Goto(AfterSetup("animation"))
    /\ IF prog = "Flat"
       THEN /\ transformation' = Iden
            /\ rotationQuat' = FlatFrameQuat
            /\ UNCHANGED glState
       ELSE /\ transformation' = RotateQuat(Iden, BrickTiltQuat)
            /\ rotationQuat' = BrickFrameQuat
            /\ glState' = PolygonMode(glState, "FRONT_FACE", "FILL")
    /\ UNCHANGED <<prog, window, sent, globals, geo, glObjects, glDeleted,
                   glNext, buffers, shaders, shaderProgram, VAO, VBO, loopv>>

----------------------------------------------------------------------------
\* The render loop.

Log(call) == frame' = Append(frame, call)

\* Variant of ContinueLoop: the close flag is not looked at.
ContinueLoopForever(w) == TRUE

\* for !window.ShouldClose()
ContinueLoop(w) == ~w.shouldClose

\* for !window.ShouldClose() { ... }: leave the loop when the close flag is
\* set, otherwise start the next iteration.
LoopCond ==
    /\ Running("loopCond")
    /\ IF ~ContinueLoop(window)
       THEN /\ Goto(TeardownOrder(prog)[1])
            /\ UNCHANGED loopv
       ELSE /\ frames < MaxFrames
            /\ Goto(BodyOrder(prog)[1])
            /\ frames' = frames + 1
            /\ frame' = <<>>
    /\ UNCHANGED <<prog, steps, window, sent, globals, geo, glv, anim>>

\* The batches of events that can have arrived between two polls.
EventBatches(n) == UNION {[1..m -> Events] : m \in 0..n}

\* glfw.PollEvents(): run the callbacks of every event that has arrived
\* since the last poll (evs), in order.
PollEvents(evs) ==
    /\ Running("poll")
    /\ Goto(AfterBody("poll"))
    /\ sent' = sent + Len(evs)
    /\ Log(Call("PollEvents", "", evs, 0, 0))
    /\ LET c == DispatchAll(CallbackState, window.callbacks, evs)
       IN  /\ window' = [window EXCEPT !.shouldClose = c.shouldClose]
           /\ globals' = [width |-> c.width, height |-> c.height,
                          viewport |-> c.viewport, log |-> c.log]
    /\ UNCHANGED <<prog, steps, geo, glv, anim, frames>>

\* transformation.RotateQuat(rotationQuat)
Rotate ==
    /\ Running("rotate")
    /\ Goto(AfterBody("rotate"))
    /\ transformation' = RotateQuat(transformation, rotationQuat)
    /\ Log(Call("RotateQuat", "", <<>>, 0, 0))
    /\ UNCHANGED <<prog, steps, window, sent, globals, geo, glv, rotationQuat,
                   frames>>

\* gl.UniformMatrix4fv(gl.GetUniformLocation(shaderProgram, "transform"), ...)
PushTransform ==
    /\ Running("pushTransform")
    /\ Goto(AfterBody("pushTransform"))
    /\ glState' = SetUniform(glState, "transform", transformation)
    /\ Log(Call("UniformMatrix4fv", "transform", transformation, 0, 0))
    /\ UNCHANGED <<prog, steps, window, sent, globals, geo, glObjects,
                   glDeleted, glNext, buffers, shaders, shaderProgram, VAO,
                   VBO, anim, frames>>

\* Lit cube: gl.Uniform3fv for lightPos, lightColor, objectColor.
PushLights ==
    /\ Running("pushLights")
    /\ Goto(AfterBody("pushLights"))
    /\ glState' = SetUniforms(glState, LightUniforms)
    /\ frame' = frame \o [i \in 1..Len(LightUniforms) |->
                    Call("Uniform3fv", LightUniforms[i][1],
                         LightUniforms[i][2], 0, 0)]
    /\ UNCHANGED <<prog, steps, window, sent, globals, geo, glObjects,
                   glDeleted, glNext, buffers, shaders, shaderProgram, VAO,
                   VBO, anim, frames>>

\* gl.ClearColor, gl.Clear(gl.COLOR_BUFFER_BIT)
Clear ==
    /\ Running("clear")
    /\ Goto(AfterBody("clear"))
    /\ Log(Call("Clear", "", <<>>, 0, 0))
    /\ UNCHANGED <<prog, steps, window, sent, globals, geo, glv, anim, frames>>

\* draw(shaderProgram, VAO), or the draw calls written out in the loop.
Draw ==
    /\ Running("draw")
    /\ Goto(AfterBody("draw"))
    /\ LET calls == DrawCalls(prog, VAO, vertices.len)
       IN  /\ frame' = frame \o [i \in 1..Len(calls) |->
                          [op |-> calls[i].op, name |-> "", value |-> <<>>,
                           vao |-> calls[i].vao, count |-> calls[i].count,
                           inUse |-> shaderProgram]]
           /\ glState' = [glState EXCEPT !.program = shaderProgram,
                                         !.vao = calls[Len(calls)].vao]
    /\ UNCHANGED <<prog, steps, window, sent, globals, geo, glObjects,
                   glDeleted, glNext, buffers, shaders, shaderProgram, VAO,
                   VBO, anim, frames>>

\* window.SwapBuffers()
SwapBuffers ==
    /\ Running("swap")
    /\ Goto(AfterBody("swap"))
    /\ Log(Call("SwapBuffers", "", <<>>, 0, 0))
    /\ UNCHANGED <<prog, steps, window, sent, globals, geo, glv, anim, frames>>

\* Lit cube: time.Sleep(16 * time.Millisecond)
Sleep ==
    /\ Running("sleep")
    /\ Goto(AfterBody("sleep"))
    /\ Log(Call("Sleep", "", <<>>, 0, 0))
    /\ UNCHANGED <<prog, steps, window, sent, globals, geo, glv, anim, frames>>

----------------------------------------------------------------------------
\* After the loop.

\* Lit cube: gl.DeleteVertexArrays(1, &VAO); gl.DeleteBuffers(1, &VBO)
Cleanup ==
    /\ Running("cleanup")
    /\ Step("cleanup")
    /\ Goto(AfterTeardown("cleanup"))
    /\ LET objs == CleanupObjects(prog, VAO, VBO)
       IN  /\ glObjects' = glObjects \ Seq2Set(objs)
           /\ glDeleted' = glDeleted \o objs
           /\ glState' = DeleteBindings(glState, objs)
    /\ UNCHANGED <<prog, window, sent, globals, geo, glNext, buffers,
                   shaders, shaderProgram, VAO, VBO, anim, loopv>>

\* main() returns: the deferred calls run and the process exits with status 0.
Return ==
    /\ Running("return")
    /\ Step("return")
    /\ exit' = "returned"
    /\ pc' = "exited"
    /\ terminated' = terminated + Len(deferred)
    /\ deferred' = <<>>
    /\ UNCHANGED <<prog, window, sent, globals, geo, glv, anim, loopv>>

----------------------------------------------------------------------------

\* The steps of main() before the loop.
Setup ==
    \/ \E err \in BOOLEAN : GlfwInit(err)
    \/ \E err \in BOOLEAN : CreateWindow(err)
    \/ SetupWindow
    \/ \E err \in BOOLEAN : GlInit(err)
    \/ Reshape
    \/ DefinePoints
    \/ BuildTrongle
    \/ FlattenVertices
    \/ \E status \in StatusValues : CompileVertex(status)
    \/ \E status \in StatusValues : CompileFragment(status)
    \/ \E status \in StatusValues : LinkShaders(status)
    \/ CreateVAO
    \/ SetupAnimation

\* The steps of the loop and after it, but for the poll.
LoopAndTeardown ==
    \/ LoopCond
    \/ Rotate
    \/ PushTransform
    \/ PushLights
    \/ Clear
    \/ Draw
    \/ SwapBuffers
    \/ Sleep
    \/ Cleanup
    \/ Return

Poll == \E evs \in EventBatches(MaxEvents - sent) : PollEvents(evs)

Next == Setup \/ Poll \/ LoopAndTeardown

Spec == Init /\ [][Next]_vars

\* main() runs on its own thread and every call it makes in and after the
\* loop returns: a step of the loop or after it that can be taken is
\* eventually taken.  glfw.PollEvents does not wait for input: it returns
\* also when nothing has arrived, so fairness is stated for the poll of the
\* empty batch, which can be taken exactly when a poll can.
FairSpec == Spec /\ WF_vars(PollEvents(<<>>) \/ LoopAndTeardown)

----------------------------------------------------------------------------
\* Claims.

StmtsDone == {steps[i].stmt : i \in 1..Len(steps)}

LastStep == steps[Len(steps)]

FrameOps == [i \in 1..Len(frame) |-> frame[i].op]

\* C1: once the close flag is set it is never cleared, no further loop
\* iteration is started (only the one in progress is finished), and main
\* eventually returns without error.
C1_CloseEndsLoop ==
    /\ [][window.shouldClose =>
            /\ window'.shouldClose
            /\ frames' = frames
            /\ exit' \in {"running", "returned"}]_vars
    /\ (window.shouldClose ~> exit = "returned")

\* A close request queued before the first iteration ended the run.
C1_Witness ==
    /\ exit = "returned"
    /\ window.shouldClose
    /\ frames = 1
    /\ sent > 0

ClosingKey(e) ==
    e.type = "key" /\ e.key \in {"Escape", "Q"} /\ e.action = "Press"

OnlyOfType(es, types) == \A i \in 1..Len(es) : es[i].type \in types

\* The events the poll of this step dispatches.
Polled == frame'[Len(frame')].value

\* C2: a poll that dispatches only key and character events sets the close
\* flag exactly when one of them is Escape or Q with action Press, and a
\* poll that dispatches only key events changes nothing else of the program
\* state (the window's other fields, the package variables, the log, the
\* GL objects, the geometry, the transform).
C2_OnKeyClosesOnlyOnEscapeOrQPress ==
    [][Running("poll") =>
          /\ OnlyOfType(Polled, {"key", "char"}) =>
                (window'.shouldClose <=>
                    (window.shouldClose
                        \/ \E i \in 1..Len(Polled) : ClosingKey(Polled[i])))
          /\ OnlyOfType(Polled, {"key"}) =>
                /\ window' = [window EXCEPT !.shouldClose = window'.shouldClose]
                /\ UNCHANGED <<globals, geo, glv, anim, steps, exit, deferred,
                               terminated, frames>>]_vars

\* A poll has dispatched a release or a repeat of Escape or Q together with
\* other events, and the close flag is still clear.
C2_Witness ==
    /\ ~window.shouldClose
    /\ \E i \in 1..Len(frame) :
          /\ frame[i].op = "PollEvents"
          /\ Len(frame[i].value) > 1
          /\ \E j \in 1..Len(frame[i].value) :
                /\ frame[i].value[j].type = "key"
                /\ frame[i].value[j].key \in {"Escape", "Q"}
                /\ frame[i].value[j].action # "Press"

ShaderStmts == {"compileVertex", "compileFragment", "link"}

ErrorLines ==
    {"ERROR::SHADER::COMPILE_FAILURE", "ERROR::PROGRAM::LINKING_FAILURE"}

\* The GL objects that exist when the check of shader statement l is made.
ObjectsAt(l) ==
    CASE l = "compileVertex"   -> {[kind |-> "shader", id |-> 1]}
      [] l = "compileFragment" -> {[kind |-> "shader", id |-> 1],
                                   [kind |-> "shader", id |-> 2]}
      [] l = "link"            -> {[kind |-> "shader", id |-> 1],
                                   [kind |-> "shader", id |-> 2],
                                   [kind |-> "program", id |-> 3]}

\* C3: a status other than 1 read by checkGlError ends the process at that
\* check: it is the last statement executed, the objects created are those
\* created up to the check, no shader is deleted, no program is returned, no
\* geometry is uploaded and no loop iteration runs.  A status of 1 prints
\* nothing and lets main go on; the process ends fatally only at a failed
\* check.
C3_ShaderFailureIsFatal ==
    /\ \A i \in 1..Len(steps) :
          (steps[i].stmt \in ShaderStmts /\ steps[i].status # {GlTrue}) =>
              /\ i = Len(steps)
              /\ exit = "fatal"
              /\ pc = "exited"
              /\ glObjects = ObjectsAt(steps[i].stmt)
              /\ glDeleted = <<>>
              /\ shaderProgram = 0
              /\ VAO = <<>>
              /\ DOMAIN buffers = {}
              /\ frames = 0
              /\ frame = <<>>
    /\ (\A i \in 1..Len(steps) :
            steps[i].stmt \in ShaderStmts => steps[i].status = {GlTrue}) =>
          /\ exit # "fatal"
          /\ \A j \in 1..Len(globals.log) : globals.log[j] \notin ErrorLines
          /\ ("link" \in StmtsDone /\ pc # "exited") =>
                pc \notin ShaderStmts /\ shaderProgram # 0

\* The fragment shader failed to compile after the vertex shader compiled.
C3_Witness ==
    /\ exit = "fatal"
    /\ LastStep.stmt = "compileFragment"
    /\ LastStep.status = {0}
    /\ Len(globals.log) > 0

InitStmts == {"glfwInit", "createWindow", "glInit"}

\* C4: an error from glfw.Init, glfw.CreateWindow or gl.Init ends the
\* process at that call: it is the last statement executed, it was executed
\* once, and nothing after it has happened (no callback is registered after
\* a failed window creation; no geometry is built, no shader is compiled, no
\* GL object exists and no loop iteration runs).
C4_InitFailureAborts ==
    /\ \A i \in 1..Len(steps) :
          (steps[i].stmt \in InitStmts /\ steps[i].err) =>
              /\ i = Len(steps)
              /\ exit = "panic"
              /\ pc = "exited"
              /\ steps[i].stmt = "glfwInit" => ~window.created
              /\ steps[i].stmt \in {"glfwInit", "createWindow"} =>
                    window.callbacks = {} /\ ~window.current
              /\ trongles = <<>>
              /\ glObjects = {}
              /\ glNext = 1
              /\ shaders = <<>>
              /\ VAO = <<>>
              /\ frames = 0
              /\ frame = <<>>
    /\ \A i, j \in 1..Len(steps) :
          (steps[i].stmt \in InitStmts /\ steps[i].stmt = steps[j].stmt) => i = j
    /\ exit = "panic" => LastStep.stmt \in InitStmts /\ LastStep.err

\* Window creation failed after glfw.Init succeeded.
C4_Witness ==
    /\ exit = "panic"
    /\ LastStep.stmt = "createWindow"
    /\ LastStep.err
    /\ Len(steps) = 2

IsPrefix(a, b) == Len(a) <= Len(b) /\ a = SubSeq(b, 1, Len(a))

\* The last iteration started has run all of its statements.
FrameComplete == frames > 0 /\ ~InBody

\* The step of an iteration a logged call belongs to.
PhaseOf(op) ==
    CASE op = "PollEvents" -> "poll"
      [] op = "RotateQuat" -> "rotate"
      [] op \in {"UniformMatrix4fv", "Uniform3fv"} -> "push"
      [] op = "Clear" -> "clear"
      [] op \in {"UseProgram", "BindVertexArray", "DrawArrays"} -> "draw"
      [] op = "SwapBuffers" -> "present"
      [] op = "Sleep" -> "sleep"

\* The steps of a call log, in order, each run of calls of one step once.
RECURSIVE Phases(_)
Phases(ops) ==
    IF ops = <<>> THEN <<>>
    ELSE LET rest == Phases(Tail(ops))
         IN  IF rest # <<>> /\ Head(rest) = PhaseOf(Head(ops))
             THEN rest
             ELSE <<PhaseOf(Head(ops))>> \o rest

WithoutSleep(ops) == SelectSeq(ops, LAMBDA op : op # "Sleep")

DrawsOf(v) == {i \in 1..Len(frame) : frame[i].op = "DrawArrays" /\ frame[i].vao = v}

\* Every buffer is drawn at most once in an iteration, and exactly once in a
\* complete one.
EachBufferDrawnOnce ==
    \A k \in 1..Len(VAO) :
        /\ Cardinality(DrawsOf(VAO[k])) <= 1
        /\ FrameComplete => Cardinality(DrawsOf(VAO[k])) = 1

\* The order of an iteration as the specification states it.
StatedPhases(p) ==
    IF p = "Static"
    THEN <<"poll", "clear", "draw", "present">>
    ELSE <<"poll", "rotate", "push", "clear", "draw", "present">>

\* The order of an iteration of each program.
ProgramPhases(p) ==
    IF p = "Brick"
    THEN <<"rotate", "push", "clear", "draw", "present", "poll", "sleep">>
    ELSE StatedPhases(p)

\* C5 as stated: in every iteration of every program the steps are poll,
\* rotate, push uniforms, clear, draw each buffer once, present (the lit
\* cube's sleep left aside).
C5_Stated_PollFirstEverywhere ==
    frames > 0 =>
        /\ IsPrefix(Phases(WithoutSleep(FrameOps)), StatedPhases(prog))
        /\ FrameComplete => Phases(WithoutSleep(FrameOps)) = StatedPhases(prog)
        /\ EachBufferDrawnOnce

\* C5 as amended: the flat cube and the static triangles poll first, then
\* (flat cube) rotate and push the transform, clear, draw each buffer once
\* and present; the lit cube rotates, pushes its uniforms, clears, draws its
\* buffer once and presents, and only then polls and sleeps.
C5_IterationOrder ==
    frames > 0 =>
        /\ IsPrefix(Phases(FrameOps), ProgramPhases(prog))
        /\ FrameComplete => Phases(FrameOps) = ProgramPhases(prog)
        /\ EachBufferDrawnOnce

\* The lit cube has completed its second iteration.
C5_Witness ==
    /\ prog = "Brick"
    /\ pc = "loopCond"
    /\ frames = 2
    /\ Len(frame) > 0

LiteralOf(defs, name) ==
    (CHOOSE d \in Seq2Set(defs) : d[1] = name)[2]

\* The floats of the k-th uploaded slice, from the literals alone.
ExpectedUpload(p, k) ==
    CASE p = "Flat" ->
            Flatten([i \in 1..3 |-> LiteralOf(FlatPoints, FlatTrongles[k][i])])
      [] p = "Static" -> StaticVertices[k]
      [] p = "Brick" ->
            Flatten([t \in 1..Len(BrickTrongles) |->
                Flatten([i \in 1..3 |->
                    LiteralOf(BrickPoints, BrickTrongles[t].points[i])
                        \o LiteralOf(BrickPoints, BrickTrongles[t].normal)])])

\* C6: every buffer holds the literal coordinates of its slice, unchanged
\* (9 floats, or 12 x 3 x 6 for the lit cube), and every draw call on it
\* requests as many vertices as its floats divided by its stride: 3, or 36
\* for the lit cube.
C6_DrawCountMatchesUpload ==
    /\ \A k \in 1..Len(VAO) :
          /\ buffers[VAO[k]].data = ExpectedUpload(prog, k)
          /\ buffers[VAO[k]].bytes = Len(buffers[VAO[k]].data) * FloatBytes
          /\ Len(buffers[VAO[k]].data) =
                IF prog = "Brick" THEN 12 * 3 * 6 ELSE 9
    /\ \A i \in 1..Len(frame) :
          frame[i].op = "DrawArrays" =>
              /\ frame[i].count * buffers[frame[i].vao].stride
                    = Len(buffers[frame[i].vao].data)
              /\ frame[i].count = IF prog = "Brick" THEN 36 ELSE 3
    /\ FrameComplete => Len(VAO) = CASE prog = "Flat" -> 4
                                     [] prog = "Static" -> 2
                                     [] prog = "Brick" -> 1

\* The lit cube's buffer has been drawn.
C6_Witness ==
    /\ prog = "Brick"
    /\ \E i \in 1..Len(frame) :
          frame[i].op = "DrawArrays" /\ frame[i].count = 36

Repeat(q, n) == [i \in 1..n |-> q]

TransformPushes == {i \in 1..Len(frame) : frame[i].op = "UniformMatrix4fv"}

FrameQuat(p) == IF p = "Flat" THEN FlatFrameQuat ELSE BrickFrameQuat

\* C7 as stated: in both rotating programs the transform pushed in the N-th
\* iteration is N compositions of the per-frame rotation starting from the
\* identity.
C7_Stated_NCompositionsFromIdentity ==
    \A i \in TransformPushes :
        frame[i].value = Iden \o Repeat(rotationQuat, frames)

\* The transform each rotating program has when its loop starts.
StartTransform(p) == IF p = "Brick" THEN <<BrickTiltQuat>> ELSE Iden

\* C7 as amended: the transform pushed in the N-th iteration is N
\* compositions of the per-frame rotation applied to the transform the loop
\* starts from, which is the identity in the flat cube and, in the lit cube,
\* the identity composed once with the rotation about X made before the
\* loop; the per-frame quaternion is the same in every iteration.
C7_NCompositionsFromStart ==
    /\ \A i \in TransformPushes :
          frame[i].value = StartTransform(prog) \o Repeat(FrameQuat(prog), frames)
    /\ (frames > 0 /\ prog # "Static") =>
          /\ rotationQuat = FrameQuat(prog)
          /\ IsPrefix(StartTransform(prog), transformation)

\* The lit cube has pushed the transform of its third iteration.
C7_Witness ==
    /\ prog = "Brick"
    /\ frames = 3
    /\ TransformPushes # {}

\* main() is at the loop condition or inside the loop body.
InLoop == exit = "running" /\ (pc = "loopCond" \/ InBody)

GeometryObjects ==
    {[kind |-> "vao", id |-> VAO[k]] : k \in 1..Len(VAO)}
        \cup {[kind |-> "buffer", id |-> buffers[VAO[k]].vbo] : k \in 1..Len(VAO)}

DeletedOfKind(kinds) == {i \in 1..Len(glDeleted) : glDeleted[i].kind \in kinds}

TimesDeleted(obj) == Cardinality({i \in 1..Len(glDeleted) : glDeleted[i] = obj})

\* C8: while the loop runs the live GL objects are the linked program and
\* every vertex array and buffer of the program (the two shader objects are
\* already deleted), and no step of the loop creates or deletes an object.
\* After its loop the lit cube deletes its vertex array and its buffer, each
\* exactly once, and then makes no further GL call; the other two programs
\* never delete a vertex array or a buffer.
C8_ObjectsFixedDuringLoop ==
    /\ [](InLoop =>
            /\ glObjects = {[kind |-> "program", id |-> shaderProgram]}
                              \cup GeometryObjects
            /\ Cardinality(GeometryObjects) = 2 * Len(UploadSources)
            /\ Len(VAO) = Len(UploadSources)
            /\ Len(glDeleted) = 2
            /\ DeletedOfKind({"shader"}) = {1, 2})
    /\ [][(InLoop /\ InLoop') =>
            UNCHANGED <<glObjects, glDeleted, glNext, buffers, VAO, VBO,
                        shaderProgram>>]_vars
    /\ [](DeletedOfKind({"vao", "buffer"}) # {} =>
            /\ prog = "Brick"
            /\ pc \in {"return", "exited"}
            /\ glState.vao = 0)
    /\ [][DeletedOfKind({"vao", "buffer"}) # {} =>
            UNCHANGED <<frame, frames, glState, glObjects, glDeleted>>]_vars
    /\ [](exit = "returned" =>
            IF prog = "Brick"
            THEN /\ TimesDeleted([kind |-> "vao", id |-> VAO[1]]) = 1
                 /\ TimesDeleted([kind |-> "buffer", id |-> VBO]) = 1
                 /\ glObjects = {[kind |-> "program", id |-> shaderProgram]}
            ELSE /\ DeletedOfKind({"vao", "buffer"}) = {}
                 /\ GeometryObjects \subseteq glObjects)

\* The lit cube has rendered, left its loop, deleted its objects and returned.
C8_Witness ==
    /\ prog = "Brick"
    /\ exit = "returned"
    /\ frames > 1
    /\ Len(glDeleted) = 4

\* C9 (flat cube): every point slice still holds its literal coordinates,
\* every triangle built so far is the 9-float concatenation of the literals
\* of its three points, and no triangle shares its backing array with
\* another triangle or with a point; so no later constructTrongle call has
\* changed an earlier triangle or a point.
C9_TronglesAreDisjointCopies ==
    prog = "Flat" =>
        /\ \A n \in DOMAIN points :
              /\ points[n].len = 3
              /\ Elems(heap, points[n]) = LiteralOf(FlatPoints, n)
        /\ \A k \in 1..Len(trongles) :
              /\ trongles[k].len = 9
              /\ Elems(heap, trongles[k]) =
                    LiteralOf(FlatPoints, FlatTrongles[k][1])
                        \o LiteralOf(FlatPoints, FlatTrongles[k][2])
                        \o LiteralOf(FlatPoints, FlatTrongles[k][3])
              /\ \A j \in 1..Len(trongles) :
                    j # k => trongles[j].arr # trongles[k].arr
              /\ \A n \in DOMAIN points : points[n].arr # trongles[k].arr

\* All four triangles of the flat cube are built.
C9_Witness ==
    /\ prog = "Flat"
    /\ Len(trongles) = 4
    /\ DOMAIN points # {}

UniformPushes ==
    {i \in 1..Len(frame) : frame[i].op \in {"UniformMatrix4fv", "Uniform3fv"}}

\* C10 as stated: whenever a rotating program pushes a uniform value, the
\* linked shader program is the program in use, in every iteration
\* including the first.
C10_Stated_ProgramInUseAtEveryPush ==
    \A i \in UniformPushes :
        /\ shaderProgram # 0
        /\ frame[i].inUse = shaderProgram

----------------------------------------------------------------------------
\* glfw.Init succeeded: its defer statement was reached.
GlfwInitSucceeded ==
    \E i \in 1..Len(steps) : steps[i].stmt = "glfwInit" /\ ~steps[i].err

\* C11 as stated: in every program, whenever glfw.Init succeeded and the
\* process has ended (normal return, panic, or fatal abort on a shader
\* failure), glfw.Terminate has been executed exactly once.
C11_Stated_TerminateOnceOnEveryExit ==
    (GlfwInitSucceeded /\ exit # "running") => terminated = 1

\* One float of the k-th built triangle: vertex v (1..3), component c
\* (1..3 position, 4..6 normal), as constructTrongle laid them out.
TrongleFloat(k, v, c) ==
    Elems(heap, trongles[k])[2 * PositionStride * (v - 1) + c]

Corners == 1..TriangleCount

Axes == 1..PositionStride

Sign(x) == IF x > 0 THEN 1 ELSE IF x < 0 THEN -1 ELSE 0

\* The length of a unit vector in the model's fixed-point coordinates.
UnitLength == LiteralOf(BrickPoints, "posXNorm")[1]

\* The normal carried by vertex v of the k-th built triangle.
NormalOf(k, v) == [a \in Axes |-> TrongleFloat(k, v, PositionStride + a)]

\* The three points of the k-th triangle share their coordinate on axis a.
SharesAxis(k, a) ==
    \A v \in Corners : TrongleFloat(k, v, a) = TrongleFloat(k, 1, a)

\* The k-th triangle carries the outward normal of the face it lies on.
OutwardNormal(k) ==
    \E a \in Axes :
        /\ SharesAxis(k, a)
        /\ \A v \in Corners :
              NormalOf(k, v) =
                  [b \in Axes |-> IF b = a
                                  THEN Sign(TrongleFloat(k, 1, a)) * UnitLength
                                  ELSE 0]

\* C12 as stated: in the lit cube every built triangle lies on a face of
\* the cuboid (its three points share one coordinate) and carries the unit
\* vector along that axis whose sign is the sign of the shared coordinate;
\* so once all twelve are built, the six faces carry six distinct normals.
C12_Stated_OutwardNormals ==
    prog = "Brick" =>
        /\ \A k \in 1..Len(trongles) : OutwardNormal(k)
        /\ Len(trongles) = Len(BrickTrongles) =>
              Cardinality({NormalOf(k, 1) : k \in 1..Len(trongles)})
                  = 2 * PositionStride

====
